---- MODULE Spec2Model ----
(***************************************************************************)
(* Model of ControlFlowAnalyzer (libsolidity/analysis/                     *)
(* ControlFlowAnalyzer.cpp): checkUninitializedAccess, the worklist        *)
(* data-flow analysis that reports accesses to unassigned storage          *)
(* pointers, the ordered emission of its diagnostics, and analyze, which   *)
(* runs it on the implemented functions of a syntax tree.                  *)
(*                                                                         *)
(* A function's control-flow graph is the input.  CFG nodes are numbered   *)
(* 1..NumNodes, node 1 is _entry and node NumNodes is _exit.  All variable *)
(* occurrences of the function are kept in one list, `occurrences`; the    *)
(* occurrences of a node are the entries of the list that name the node,   *)
(* in list order, and the index of an entry stands for the address of the  *)
(* VariableOccurrence object.                                              *)
(***************************************************************************)
EXTENDS Integers, Sequences, FiniteSets, TLC

\* ---------------------------------------------------------------- bounds
NumNodes == 3       \* CFG nodes of the analysed function
NumDecls == 2       \* local variable declarations of the function
MaxOccs == 2        \* occurrences in a CFG over entry, node 2 and exit
MaxDeepOccs == 4    \* occurrences in a CFG that is a loop or a join
MaxBlockLen == 3    \* occurrences in the block of a straight-line function
LoopEntryLen == 3   \* occurrences in the entry node of a long loop
LoopBodyLen == 2    \* occurrences in the other node of a loop
MaxAstId == 2       \* ids of the syntax nodes accesses are bound to
MaxStack == 4       \* depth of nodesToTraverse that is followed
MaxVisits == 2      \* visits of a node that are counted
MaxFuel == 12       \* iterations of a run that is replayed for comparison
MaxFunctions == 2   \* function definitions of a syntax tree
MaxHeld == 1        \* diagnostics the reporter holds when analyze is called

Nodes == 1..NumNodes
Decls == 1..NumDecls
EntryNode == 1
ExitNode == NumNodes

\* VariableOccurrence::Kind
Kinds == {"Declaration", "Assignment", "InlineAssembly", "Access"}

\* occurrence() is optional: 0 stands for the null pointer.
NoAst == 0
AstIds == 0..MaxAstId

VARIABLES
    occurrences,      \* the VariableOccurrence objects of the function
    exits,            \* CFGNode::exits of every node, in iteration order
    storage,          \* declaration().type()->dataStoredIn(Storage)
    nodeInfos,        \* map<CFGNode const*, NodeInfo>
    nodesToTraverse,  \* stack<CFGNode const*>, top is the last element
    errors,           \* what m_errorReporter.typeError was called with
    pc,               \* "loop": in the while loop, "done": returned from
                      \* checkUninitializedAccess, "traverse": in accept,
                      \* "returned": analyze has returned
    visits,           \* history: how often each node was popped, up to MaxVisits
    pending,          \* the function definitions accept has yet to visit
    held,             \* types of the errors m_errorReporter held before
    result            \* what analyze returned, NoResult before it returns

vars == <<occurrences, exits, storage, nodeInfos, nodesToTraverse, errors, pc,
          visits, pending, held, result>>
cfg == <<occurrences, exits, storage>>
driver == <<pending, held, result>>

OccIds == 1..Len(occurrences)

\* CFGNode::variableOccurrences of node n, as the ascending list of ids.
RECURSIVE OccsFrom(_, _)
OccsFrom(n, i) ==
    IF i > Len(occurrences) THEN <<>>
    ELSE IF occurrences[i].node = n THEN <<i>> \o OccsFrom(n, i + 1)
    ELSE OccsFrom(n, i + 1)

variableOccurrences(n) == OccsFrom(n, 1)

\* A default-constructed NodeInfo.
EmptyInfo == [unassignedVariables |-> {}, uninitializedVariableAccesses |-> {}]

\* The switch without the dataStoredIn(Storage) test of line 92.
ApplyOccurrenceNoStorageTest(info, id) ==
    LET o == occurrences[id] IN
    CASE o.kind \in {"Assignment", "InlineAssembly"} ->
           [info EXCEPT !.unassignedVariables = @ \ {o.decl}]
      [] o.kind = "Access" ->
           IF o.decl \in info.unassignedVariables
           THEN [info EXCEPT !.uninitializedVariableAccesses = @ \cup {id}]
           ELSE info
      [] o.kind = "Declaration" ->
           [info EXCEPT !.unassignedVariables = @ \cup {o.decl}]

\* The switch without the erase of line 81.
ApplyOccurrenceNoErase(info, id) ==
    LET o == occurrences[id] IN
    CASE o.kind = "Assignment" -> info
      [] o.kind = "InlineAssembly" ->
           [info EXCEPT !.unassignedVariables = @ \ {o.decl}]
      [] o.kind = "Access" ->
           IF o.decl \in info.unassignedVariables /\ storage[o.decl]
           THEN [info EXCEPT !.uninitializedVariableAccesses = @ \cup {id}]
           ELSE info
      [] o.kind = "Declaration" ->
           [info EXCEPT !.unassignedVariables = @ \cup {o.decl}]

\* The switch with a case InlineAssembly that only breaks.
ApplyKindAssemblyIgnored(kind, info, id) ==
    LET o == occurrences[id] IN
    CASE kind = "Assignment" ->
           [info EXCEPT !.unassignedVariables = @ \ {o.decl}]
      [] kind = "InlineAssembly" -> info
      [] kind = "Access" ->
           IF o.decl \in info.unassignedVariables /\ storage[o.decl]
           THEN [info EXCEPT !.uninitializedVariableAccesses = @ \cup {id}]
           ELSE info
      [] kind = "Declaration" ->
           [info EXCEPT !.unassignedVariables = @ \cup {o.decl}]

\* The case of the switch that kind selects, applied to nodeInfo for the
\* occurrence id.
ApplyKind(kind, info, id) ==
    LET o == occurrences[id] IN
    CASE kind = "Assignment" ->
           [info EXCEPT !.unassignedVariables = @ \ {o.decl}]
      [] kind = "InlineAssembly" ->
           [info EXCEPT !.unassignedVariables = @ \ {o.decl}]
      [] kind = "Access" ->
           IF o.decl \in info.unassignedVariables /\ storage[o.decl]
           THEN [info EXCEPT !.uninitializedVariableAccesses = @ \cup {id}]
           ELSE info
      [] kind = "Declaration" ->
           [info EXCEPT !.unassignedVariables = @ \cup {o.decl}]

\* The body of the switch for one occurrence, applied to nodeInfo.
ApplyOccurrence(info, id) == ApplyKind(occurrences[id].kind, info, id)

\* The for loop over currentNode->variableOccurrences.
RECURSIVE ApplyOccurrences(_, _)
ApplyOccurrences(info, ids) ==
    IF ids = <<>> THEN info
    ELSE ApplyOccurrences(ApplyOccurrence(info, Head(ids)), Tail(ids))

\* NodeInfo::propagateFrom: the merged info and the returned flag.
propagateFrom(this, entryNode) ==
    LET merged == [unassignedVariables |->
                       this.unassignedVariables \cup entryNode.unassignedVariables,
                   uninitializedVariableAccesses |->
                       this.uninitializedVariableAccesses
                           \cup entryNode.uninitializedVariableAccesses]
    IN [info |-> merged,
        grew |-> \/ Cardinality(merged.unassignedVariables)
                      > Cardinality(this.unassignedVariables)
                 \/ Cardinality(merged.uninitializedVariableAccesses)
                      > Cardinality(this.uninitializedVariableAccesses)]

\* The for loop over currentNode->exits: nodeInfo is a reference into the
\* map, so every iteration reads infos[n] as it is then.
RECURSIVE PropagateToExits(_, _, _, _)
PropagateToExits(infos, stack, n, exs) ==
    IF exs = <<>> THEN [infos |-> infos, stack |-> stack]
    ELSE LET e == Head(exs)
             r == propagateFrom(infos[e], infos[n])
         IN PropagateToExits([infos EXCEPT ![e] = r.info],
                             IF r.grew THEN Append(stack, e) ELSE stack,
                             n, Tail(exs))

\* The iteration with a nodeInfo that is default-constructed and then
\* stored in the map.
VisitNodeFromScratch(infos, stack, exs) ==
    LET currentNode == stack[Len(stack)]
        popped == SubSeq(stack, 1, Len(stack) - 1)
        visited == [infos EXCEPT ![currentNode] =
                       ApplyOccurrences(EmptyInfo, variableOccurrences(currentNode))]
    IN PropagateToExits(visited, popped, currentNode, exs[currentNode])

\* One iteration of the while loop for the popped node: the occurrences are
\* applied to the map entry itself (auto& nodeInfo), then it is propagated.
VisitNode(infos, stack, exs) ==
    LET currentNode == stack[Len(stack)]
        popped == SubSeq(stack, 1, Len(stack) - 1)
        visited == [infos EXCEPT ![currentNode] =
                       ApplyOccurrences(@, variableOccurrences(currentNode))]
    IN PropagateToExits(visited, popped, currentNode, exs[currentNode])

\* ------------------------------------------------------------ the report
\* The accesses recorded at any node, taken for those of the exit node.
exitInfoOfAnyNode ==
    [unassignedVariables |-> nodeInfos[ExitNode].unassignedVariables,
     uninitializedVariableAccesses |->
         UNION {nodeInfos[n].uninitializedVariableAccesses : n \in Nodes}]

\* Line 111: exitInfo, read once the loop has ended.
exitInfo == nodeInfos[ExitNode]

\* The comparator handed to sort.
KindOrdinal(k) ==
    CASE k = "Declaration" -> 0 [] k = "Assignment" -> 1
      [] k = "InlineAssembly" -> 2 [] k = "Access" -> 3

\* The comparator with the results of lines 129 and 131 exchanged.
LessUnboundLast(l, r) ==
    LET lhs == occurrences[l]
        rhs == occurrences[r]
        byDeclaration ==
            IF lhs.decl < rhs.decl THEN TRUE
            ELSE IF rhs.decl < lhs.decl THEN FALSE
            ELSE KindOrdinal(lhs.kind) < KindOrdinal(rhs.kind)
    IN IF lhs.ast # NoAst /\ rhs.ast # NoAst
       THEN IF lhs.ast < rhs.ast THEN TRUE
            ELSE IF rhs.ast < lhs.ast THEN FALSE
            ELSE byDeclaration
       ELSE IF rhs.ast # NoAst THEN FALSE
       ELSE IF lhs.ast # NoAst THEN TRUE
       ELSE byDeclaration

Less(l, r) ==
    LET lhs == occurrences[l]
        rhs == occurrences[r]
        byDeclaration ==
            IF lhs.decl < rhs.decl THEN TRUE
            ELSE IF rhs.decl < lhs.decl THEN FALSE
            ELSE KindOrdinal(lhs.kind) < KindOrdinal(rhs.kind)
    IN IF lhs.ast # NoAst /\ rhs.ast # NoAst
       THEN IF lhs.ast < rhs.ast THEN TRUE
            ELSE IF rhs.ast < lhs.ast THEN FALSE
            ELSE byDeclaration
       ELSE IF rhs.ast # NoAst THEN TRUE
       ELSE IF lhs.ast # NoAst THEN FALSE
       ELSE byDeclaration

\* What sort may leave in uninitializedAccessesOrdered: an arrangement of
\* the set in which no element is Less than an earlier one.  The order of
\* elements the comparator does not separate is the library's choice.
Arrangements(S) ==
    {s \in [1..Cardinality(S) -> S] :
        \A i, j \in 1..Cardinality(S) : i # j => s[i] # s[j]}

Sorted(s) == \A i, j \in 1..Len(s) : i < j => ~Less(s[j], s[i])

\* The vector as it is without the call of sort.
UnsortedArrangements(S) == Arrangements(S)

SortedArrangements(S) == {s \in Arrangements(S) : Sorted(s)}

\* The arguments of one m_errorReporter.typeError call.
Message == "This variable is of storage pointer type and is accessed without prior assignment."

TypeError(id) ==
    LET o == occurrences[id] IN
    [access |-> id,
     location |-> IF o.ast # NoAst THEN <<"occurrence", o.ast>>
                  ELSE <<"declaration", o.decl>>,
     secondary |-> IF o.ast # NoAst
                   THEN << <<"The variable was declared here.", <<"declaration", o.decl>> >> >>
                   ELSE <<>>,
     message |-> Message]

\* ------------------------------------------------------------- the inputs
\* The fields of a VariableOccurrence and the node that holds it.
OccurrenceRecords(asts) ==
    [node : Nodes, kind : Kinds, decl : Decls, ast : asts]

GroupedByNode(l) ==
    \A i \in DOMAIN l : i < Len(l) => l[i].node <= l[i + 1].node

\* Lists of k occurrences, grouped by node, each bound to a syntax node of
\* its own whose id is the position in the list.
OccurrenceLists(k) ==
    {[i \in 1..k |-> [node |-> l[i].node, kind |-> l[i].kind,
                      decl |-> l[i].decl, ast |-> i]] :
        l \in {m \in [1..k -> OccurrenceRecords({NoAst})] : GroupedByNode(m)}}

\* Occurrences of a block: an access is bound to any syntax node or to
\* none; occurrence() of the other kinds is never read and left null.
BlockRecords ==
    [node : {EntryNode}, kind : Kinds \ {"Access"}, decl : Decls, ast : {NoAst}]
        \cup [node : {EntryNode}, kind : {"Access"}, decl : Decls, ast : AstIds]

\* Orders of up to two distinct successors other than the node itself.
ExitLists(n) ==
    {<<>>} \cup {<<a>> : a \in Nodes \ {n}}
           \cup {<<p[1], p[2]>> :
                    p \in {q \in (Nodes \ {n}) \X (Nodes \ {n}) : q[1] # q[2]}}

NoExits == [n \in Nodes |-> <<>>]

\* analyze has not returned.
NoResult == "none"

\* checkUninitializedAccess is entered for the only function of the tree;
\* the reporter holds nothing.
StartOfAnalysis ==
    /\ nodeInfos = [n \in Nodes |-> EmptyInfo]
    /\ nodesToTraverse = <<EntryNode>>
    /\ errors = <<>>
    /\ pc = "loop"
    /\ visits = [n \in Nodes |-> 0]
    /\ pending = <<>>
    /\ held = <<>>
    /\ result = NoResult

\* CFGs over the entry node, node 2 and the exit node with few occurrences:
\* every shape in which the exit node is a sink; the last declaration is
\* not a storage pointer.
GraphNodes == {EntryNode, 2, ExitNode}

InitGraph ==
    /\ exits \in {e \in [Nodes -> UNION {ExitLists(n) : n \in Nodes}] :
                     /\ \A n \in Nodes \ {EntryNode, 2} : e[n] = <<>>
                     /\ \A n \in {EntryNode, 2} :
                            /\ e[n] \in ExitLists(n)
                            /\ \A i \in DOMAIN e[n] : e[n][i] \in GraphNodes}
    /\ \E k \in 0..MaxOccs :
          occurrences \in {l \in OccurrenceLists(k) :
                              \A i \in DOMAIN l : l[i].node \in GraphNodes}
    /\ storage = [d \in Decls |-> d < NumDecls]
    /\ StartOfAnalysis

\* Straight-line functions: one block of occurrences in the entry node,
\* which leads to the exit node.
InitBlock ==
    /\ exits = [NoExits EXCEPT ![EntryNode] = <<ExitNode>>]
    /\ \E k \in 0..MaxBlockLen : occurrences \in [1..k -> BlockRecords]
    /\ storage = [d \in Decls |-> d < NumDecls]
    /\ StartOfAnalysis

\* Loops (entry -> 2 -> entry, 2 -> exit) and joins (entry -> 2 -> exit,
\* entry -> exit), in both orders of the two successors, with more
\* occurrences; every variable is a storage pointer.
DeepShapes ==
    {[NoExits EXCEPT ![EntryNode] = <<2>>, ![2] = <<EntryNode, ExitNode>>],
     [NoExits EXCEPT ![EntryNode] = <<2>>, ![2] = <<ExitNode, EntryNode>>],
     [NoExits EXCEPT ![EntryNode] = <<2, ExitNode>>, ![2] = <<ExitNode>>],
     [NoExits EXCEPT ![EntryNode] = <<ExitNode, 2>>, ![2] = <<ExitNode>>]}

InitDeep ==
    /\ exits \in DeepShapes
    /\ \E k \in 0..MaxDeepOccs : occurrences \in OccurrenceLists(k)
    /\ storage = [d \in Decls |-> TRUE]
    /\ StartOfAnalysis

\* Loops (entry -> 2 -> entry, 2 -> exit, in both orders) with entryLen
\* occurrences in the entry node and bodyLen in node 2, of the given kinds;
\* every variable is a storage pointer.
LoopLists(entryLen, bodyLen, kinds) ==
    {[i \in 1..(entryLen + bodyLen) |->
         [node |-> IF i <= entryLen THEN EntryNode ELSE 2,
          kind |-> f[i].kind, decl |-> f[i].decl, ast |-> i]] :
        f \in [1..(entryLen + bodyLen) -> [kind : kinds, decl : Decls]]}

InitLoopOf(entryLen, bodyLen, kinds) ==
    /\ exits \in {e \in DeepShapes : e[EntryNode] = <<2>>}
    /\ occurrences \in LoopLists(entryLen, bodyLen, kinds)
    /\ storage = [d \in Decls |-> TRUE]
    /\ StartOfAnalysis

\* Loops whose body is one occurrence shorter than the entry node.
InitLoopShort ==
    InitLoopOf(LoopBodyLen, LoopBodyLen - 1, {"Declaration", "Assignment", "Access"})

InitLoopBody ==
    InitLoopOf(LoopEntryLen, LoopBodyLen, {"Declaration", "Assignment", "Access"})

\* Loops whose two nodes hold LoopBodyLen occurrences each, declarations
\* or assignments.
InitLoop ==
    InitLoopOf(LoopBodyLen, LoopBodyLen, {"Declaration", "Assignment"})

Init == InitGraph \/ InitBlock \/ InitLoopShort

\* ------------------------------------------------------------ the actions
\* Lines 70-109: one iteration of the while loop.
Visit ==
    /\ pc = "loop"
    /\ nodesToTraverse # <<>>
    /\ LET r == VisitNode(nodeInfos, nodesToTraverse, exits) IN
         /\ Len(r.stack) <= MaxStack
         /\ nodeInfos' = r.infos
         /\ nodesToTraverse' = r.stack
    /\ visits' = [visits EXCEPT ![nodesToTraverse[Len(nodesToTraverse)]] =
                     IF @ < MaxVisits THEN @ + 1 ELSE @]
    /\ UNCHANGED <<cfg, errors, pc, driver>>

\* The report with a for loop that is left after its first iteration.
ReportFirstOnly ==
    /\ pc = "loop"
    /\ nodesToTraverse = <<>>
    /\ \E ordered \in SortedArrangements(exitInfo.uninitializedVariableAccesses) :
         errors' = errors \o [i \in 1..(IF ordered = <<>> THEN 0 ELSE 1) |->
                                 TypeError(ordered[i])]
    /\ pc' = "done"
    /\ UNCHANGED <<cfg, nodeInfos, nodesToTraverse, visits, driver>>

\* The report made from inside the loop, whatever nodesToTraverse holds.
ReportEarly ==
    /\ pc = "loop"
    /\ \E ordered \in SortedArrangements(exitInfo.uninitializedVariableAccesses) :
         errors' = errors \o [i \in 1..Len(ordered) |-> TypeError(ordered[i])]
    /\ pc' = "done"
    /\ UNCHANGED <<cfg, nodeInfos, nodesToTraverse, visits, driver>>

\* Lines 111-154: the loop has ended; the accesses that reached the exit
\* node are sorted and one type error is reported for each.
Report ==
    /\ pc = "loop"
    /\ nodesToTraverse = <<>>
    /\ \E ordered \in SortedArrangements(exitInfo.uninitializedVariableAccesses) :
         errors' = errors \o [i \in 1..Len(ordered) |-> TypeError(ordered[i])]
    /\ pc' = "done"
    /\ UNCHANGED <<cfg, nodeInfos, nodesToTraverse, visits, driver>>

Next == Visit \/ Report

Spec == Init /\ [][Next]_vars

\* The same analysis on loops and joins with more occurrences.
DeepSpec == (InitDeep \/ InitLoopBody) /\ [][Next]_vars

\* The loop runs on: an iteration that can be taken is eventually taken.
FairSpec == InitLoop /\ [][Next]_vars /\ WF_vars(Next)

\* ------------------------------------------------------------- analyze
\* A function definition: isImplemented() and, for an implemented one, the
\* CFG that m_cfg.functionFlow yields for it.
Unimplemented ==
    [implemented |-> FALSE, occurrences |-> <<>>, exits |-> NoExits,
     storage |-> [d \in Decls |-> TRUE]]

\* Bodies that are one block of up to MaxOccs declarations and accesses of
\* the first variable, a storage pointer.
FunctionBodies ==
    UNION {{[implemented |-> TRUE,
             occurrences |-> [i \in 1..k |-> [node |-> EntryNode, kind |-> f[i],
                                              decl |-> 1, ast |-> i]],
             exits |-> [NoExits EXCEPT ![EntryNode] = <<ExitNode>>],
             storage |-> [d \in Decls |-> TRUE]] :
               f \in [1..k -> {"Declaration", "Access"}]} : k \in 0..MaxOccs}

FunctionDefinitions == FunctionBodies \cup {Unimplemented}

\* The types of the errors a reporter may hold from an earlier use.
HeldTypes == {"Warning", "TypeError"}

\* analyze is called: accept is about to visit the function definitions of
\* the tree in order.
InitAnalyze ==
    /\ \E k \in 0..MaxFunctions : pending \in [1..k -> FunctionDefinitions]
    /\ \E k \in 0..MaxHeld : held \in [1..k -> HeldTypes]
    /\ result = NoResult
    /\ occurrences = <<>>
    /\ exits = NoExits
    /\ storage = [d \in Decls |-> TRUE]
    /\ nodeInfos = [n \in Nodes |-> EmptyInfo]
    /\ nodesToTraverse = <<>>
    /\ errors = <<>>
    /\ pc = "traverse"
    /\ visits = [n \in Nodes |-> 0]

\* accept is between two function definitions.
InTraversal == pc \in {"traverse", "done"}

\* visit(FunctionDefinition) with the unassigned variables of the nodes
\* kept from the function before.
VisitFunctionKeepingUnassigned ==
    /\ InTraversal
    /\ pending # <<>>
    /\ pending' = Tail(pending)
    /\ LET function == Head(pending) IN
         IF function.implemented
         THEN /\ occurrences' = function.occurrences
              /\ exits' = function.exits
              /\ storage' = function.storage
              /\ nodeInfos' = [n \in Nodes |->
                                  [nodeInfos[n] EXCEPT
                                      !.uninitializedVariableAccesses = {}]]
              /\ nodesToTraverse' = <<EntryNode>>
              /\ visits' = [n \in Nodes |-> 0]
              /\ pc' = "loop"
         ELSE /\ pc' = "traverse"
              /\ UNCHANGED <<cfg, nodeInfos, nodesToTraverse, visits>>
    /\ UNCHANGED <<errors, held, result>>

\* Lines 31-39 up to the first iteration of the loop: the next function
\* definition is visited; for an implemented one checkUninitializedAccess
\* is entered with its flow, a new map and a stack that holds _entry.
VisitFunction ==
    /\ InTraversal
    /\ pending # <<>>
    /\ pending' = Tail(pending)
    /\ LET function == Head(pending) IN
         IF function.implemented
         THEN /\ occurrences' = function.occurrences
              /\ exits' = function.exits
              /\ storage' = function.storage
              /\ nodeInfos' = [n \in Nodes |-> EmptyInfo]
              /\ nodesToTraverse' = <<EntryNode>>
              /\ visits' = [n \in Nodes |-> 0]
              /\ pc' = "loop"
         ELSE /\ pc' = "traverse"
              /\ UNCHANGED <<cfg, nodeInfos, nodesToTraverse, visits>>
    /\ UNCHANGED <<errors, held, result>>

\* m_errorReporter.errors(): what the reporter held, then the type errors.
ReporterErrors == held \o [i \in DOMAIN errors |-> "TypeError"]

\* Error::containsOnlyWarnings
containsOnlyWarnings(list) == \A i \in DOMAIN list : list[i] = "Warning"

\* analyze that returns true whatever the reporter holds.
ReturnTrue ==
    /\ InTraversal
    /\ pending = <<>>
    /\ result' = TRUE
    /\ pc' = "returned"
    /\ UNCHANGED <<cfg, nodeInfos, nodesToTraverse, errors, visits, pending, held>>

\* Line 28: accept has visited every function definition.
Return ==
    /\ InTraversal
    /\ pending = <<>>
    /\ result' = containsOnlyWarnings(ReporterErrors)
    /\ pc' = "returned"
    /\ UNCHANGED <<cfg, nodeInfos, nodesToTraverse, errors, visits, pending, held>>

AnalyzeNext == VisitFunction \/ Visit \/ Report \/ Return

\* analyze on a syntax tree of several function definitions.
AnalyzeSpec == InitAnalyze /\ [][AnalyzeNext]_vars

\* ------------------------------------------------ paths of the CFG
Kind(a) == occurrences[a].kind
Decl(a) == occurrences[a].decl
NodeOf(a) == occurrences[a].node

Successors(n) == {exits[n][i] : i \in DOMAIN exits[n]}

RECURSIVE Closure(_, _)
Closure(R, via) ==
    LET R2 == R \cup UNION {Successors(m) : m \in R \cap via}
    IN IF R2 = R THEN R ELSE Closure(R2, via)

\* The nodes a path of one or more edges leads to from n, when the nodes
\* strictly between its ends are all in via.
StepsFrom(n, via) == Closure(Successors(n), via)

\* There is a path of zero or more edges from m to n.
Reaches(m, n) == m = n \/ n \in StepsFrom(m, Nodes)

\* Occurrence a assigns x: an Assignment or an InlineAssembly reference.
Assigns(a, x) ==
    Decl(a) = x /\ Kind(a) \in {"Assignment", "InlineAssembly"}

\* The nodes that hold no assignment of x.
NotAssigning(x) == {n \in Nodes : \A b \in OccIds : NodeOf(b) = n => ~Assigns(b, x)}

\* No assignment of x precedes a in a's own node / follows d in d's node /
\* lies between d and a, which are in one node.
NotAssignedBefore(a, x) ==
    \A b \in OccIds : NodeOf(b) = NodeOf(a) /\ b < a => ~Assigns(b, x)
NotAssignedAfter(d, x) ==
    \A b \in OccIds : NodeOf(b) = NodeOf(d) /\ b > d => ~Assigns(b, x)
NotAssignedBetween(d, a, x) ==
    \A b \in OccIds : d < b /\ b < a => ~Assigns(b, x)

\* Some path from the entry node through a's node to the exit node has no
\* assignment of a's variable before a.
UnassignedPath(a) ==
    LET x == Decl(a) IN
    /\ NotAssignedBefore(a, x)
    /\ \/ NodeOf(a) = EntryNode
       \/ /\ EntryNode \in NotAssigning(x)
          /\ NodeOf(a) \in StepsFrom(EntryNode, NotAssigning(x))
    /\ Reaches(NodeOf(a), ExitNode)

\* Some path from the entry node to the exit node has a declaration of a's
\* variable that is followed by a with no assignment of the variable
\* between the two.
DeclaredUnassignedPath(a) ==
    LET x == Decl(a) IN
    /\ Reaches(NodeOf(a), ExitNode)
    /\ \E d \in OccIds :
         /\ Kind(d) = "Declaration" /\ Decl(d) = x
         /\ Reaches(EntryNode, NodeOf(d))
         /\ \/ NodeOf(d) = NodeOf(a) /\ d < a /\ NotAssignedBetween(d, a, x)
            \/ /\ NotAssignedAfter(d, x)
               /\ NotAssignedBefore(a, x)
               /\ NodeOf(a) \in StepsFrom(NodeOf(d), NotAssigning(x))

Accesses == {a \in OccIds : Kind(a) = "Access"}

\* The accesses a type error was reported for.
Reported == {errors[i].access : i \in DOMAIN errors}

HasAst(a) == occurrences[a].ast # NoAst

\* ---------------------------------------------------------------- claims
\* The iteration that is due would push nodesToTraverse beyond the depth
\* that is followed; the run is not followed further.
StackOverflow ==
    /\ pc = "loop"
    /\ nodesToTraverse # <<>>
    /\ Len(VisitNode(nodeInfos, nodesToTraverse, exits).stack) > MaxStack

\* C1: for every CFG the worklist loop reaches an empty worklist after
\* finitely many pops (as far as the run is followed).
C1_Terminates == <>(nodesToTraverse = <<>> \/ StackOverflow)

\* C2: completeness.  When the analysis has ended, every access of a
\* storage pointer that some path from entry to exit reaches after a
\* declaration of the variable, with no assignment in between, is reported.
C2_Complete ==
    pc = "done" =>
        \A a \in Accesses :
            storage[Decl(a)] /\ DeclaredUnassignedPath(a) => a \in Reported

\* C3: soundness bound.  For every reported access there is a path from
\* entry through its node to exit on which no assignment of its variable
\* precedes it.
C3_Sound == \A a \in Reported : UnassignedPath(a)

\* C4: revert-path suppression.  An access whose node has no path to the
\* exit node is never reported.
C4_RevertPathSuppressed ==
    \A a \in Reported : Reaches(NodeOf(a), ExitNode)

\* An access is pending at a node that has no path to the exit node, and
\* the analysis has ended.
C4_Witness ==
    /\ pc = "done"
    /\ \E n \in Nodes : \E a \in nodeInfos[n].uninitializedVariableAccesses :
         ~Reaches(NodeOf(a), ExitNode)

\* Access a is preceded in its node by an assignment of its variable /
\* by one that no declaration of the variable follows before a.
AssignedBefore(a) ==
    \E b \in OccIds : NodeOf(b) = NodeOf(a) /\ b < a /\ Assigns(b, Decl(a))
AssignedBeforeLast(a) ==
    \E b \in OccIds :
        /\ NodeOf(b) = NodeOf(a) /\ b < a /\ Assigns(b, Decl(a))
        /\ \A d \in OccIds : b < d /\ d < a =>
               ~(Kind(d) = "Declaration" /\ Decl(d) = Decl(a))

\* C5 as stated: an access that an assignment of its variable precedes in
\* its node is never reported.
C5_SameBlockOrdering == \A a \in Reported : ~AssignedBefore(a)

\* C5 as amended: an access that an assignment of its variable precedes in
\* its node, with no declaration of the variable between the two, is never
\* pending at any node and never reported.
C5_SameBlockOrderingAmended ==
    /\ \A a \in Reported : ~AssignedBeforeLast(a)
    /\ \A n \in Nodes : \A a \in nodeInfos[n].uninitializedVariableAccesses :
           ~AssignedBeforeLast(a)

\* The analysis has ended after a visit of a node in which a storage
\* pointer is declared, then assigned, then accessed.
C5_Witness ==
    /\ pc = "done"
    /\ \E a \in Accesses :
         /\ AssignedBeforeLast(a)
         /\ storage[Decl(a)]
         /\ visits[NodeOf(a)] > 0
         /\ \E d \in OccIds :
              /\ NodeOf(d) = NodeOf(a) /\ Kind(d) = "Declaration" /\ Decl(d) = Decl(a)
              /\ \E b \in OccIds : d < b /\ b < a /\ Assigns(b, Decl(a))

\* C6: storage gate.  Only accesses of storage pointers are pending at a
\* node, and only such accesses are reported.
C6_StorageGate ==
    /\ \A n \in Nodes : \A a \in nodeInfos[n].uninitializedVariableAccesses :
           Kind(a) = "Access" /\ storage[Decl(a)]
    /\ \A a \in Reported : Kind(a) = "Access" /\ storage[Decl(a)]

\* The analysis has ended after a visit of a node in which a variable that
\* is not a storage pointer is accessed right after its declaration.
C6_Witness ==
    /\ pc = "done"
    /\ \E a \in Accesses :
         /\ ~storage[Decl(a)]
         /\ visits[NodeOf(a)] > 0
         /\ Reaches(NodeOf(a), ExitNode)
         /\ a > 1 /\ NodeOf(a - 1) = NodeOf(a)
         /\ Kind(a - 1) = "Declaration" /\ Decl(a - 1) = Decl(a)

\* The while loop run to its end from the given state with the successors
\* in the order exs, for at most fuel iterations.
RECURSIVE RunFrom(_, _, _, _)
RunFrom(infos, stack, exs, fuel) ==
    IF stack = <<>> THEN [ended |-> TRUE, infos |-> infos]
    ELSE IF fuel = 0 THEN [ended |-> FALSE, infos |-> infos]
    ELSE LET r == VisitNode(infos, stack, exs)
         IN RunFrom(r.infos, r.stack, exs, fuel - 1)

Orders(l) ==
    {p \in [DOMAIN l -> {l[i] : i \in DOMAIN l}] :
        \A i, j \in DOMAIN l : i # j => p[i] # p[j]}

\* The CFGs that differ from this one in the order of successors only.
Reorderings ==
    {e \in [Nodes -> UNION {Orders(exits[n]) : n \in Nodes}] :
        \A n \in Nodes : e[n] \in Orders(exits[n])}

\* What a type error says, without the identity of the access.
Diagnostic(a) ==
    [location |-> TypeError(a).location, secondary |-> TypeError(a).secondary,
     message |-> TypeError(a).message]

\* C7: determinism.  A run of the analysis on the same CFG with the
\* successors of the nodes taken in any other order, if it ends, reports
\* the same set of accesses and emits the same sequence of diagnostics.
C7_Deterministic ==
    pc = "done" =>
        \A e \in Reorderings :
            LET r == RunFrom([n \in Nodes |-> EmptyInfo], <<EntryNode>>, e, MaxFuel)
                other == r.infos[ExitNode].uninitializedVariableAccesses
            IN r.ended =>
                 /\ other = Reported
                 /\ \E ordered \in SortedArrangements(other) :
                      [i \in 1..Len(ordered) |-> Diagnostic(ordered[i])]
                          = [i \in DOMAIN errors |-> Diagnostic(errors[i].access)]

\* The accesses of the i-th and the j-th type error.
ErrorAccess(i) == errors[i].access

\* C8 as stated: the comparator orders an occurrence without a bound syntax
\* node after one with a bound syntax node, and every diagnostic for an
\* occurrence with a bound syntax node precedes every diagnostic for one
\* without.
C8_UnboundLast ==
    /\ \A a, b \in exitInfo.uninitializedVariableAccesses :
           HasAst(a) /\ ~HasAst(b) => Less(a, b) /\ ~Less(b, a)
    /\ \A i, j \in DOMAIN errors :
           HasAst(ErrorAccess(i)) /\ ~HasAst(ErrorAccess(j)) => i < j

\* C8 as amended: the comparator orders an occurrence without a bound
\* syntax node before one with a bound syntax node, and every diagnostic
\* for an occurrence without a bound syntax node precedes every diagnostic
\* for one with.
C8_UnboundFirst ==
    /\ \A a, b \in exitInfo.uninitializedVariableAccesses :
           ~HasAst(a) /\ HasAst(b) => Less(a, b) /\ ~Less(b, a)
    /\ \A i, j \in DOMAIN errors :
           ~HasAst(ErrorAccess(i)) /\ HasAst(ErrorAccess(j)) => i < j

\* Type errors were reported for an access with a bound syntax node and
\* for one without.
C8_Witness ==
    /\ pc = "done"
    /\ \E i, j \in DOMAIN errors :
         HasAst(ErrorAccess(i)) /\ ~HasAst(ErrorAccess(j))

\* C9: of two diagnostics whose accesses are bound to syntax nodes, the one
\* with the smaller syntax-node id comes first; with equal ids, the one
\* with the smaller declaration id does not come later.
C9_AscendingIds ==
    \A i, j \in DOMAIN errors :
        /\ i < j
        /\ HasAst(ErrorAccess(i)) /\ HasAst(ErrorAccess(j))
        => \/ occurrences[ErrorAccess(i)].ast < occurrences[ErrorAccess(j)].ast
           \/ /\ occurrences[ErrorAccess(i)].ast = occurrences[ErrorAccess(j)].ast
              /\ Decl(ErrorAccess(i)) <= Decl(ErrorAccess(j))

\* Type errors were reported for two accesses bound to syntax nodes of
\* different ids, the one with the larger id being the earlier occurrence
\* of the block.
C9_Witness ==
    /\ pc = "done"
    /\ \E i, j \in DOMAIN errors :
         /\ HasAst(ErrorAccess(i)) /\ HasAst(ErrorAccess(j))
         /\ occurrences[ErrorAccess(i)].ast < occurrences[ErrorAccess(j)].ast
         /\ ErrorAccess(j) < ErrorAccess(i)

\* C10: nothing is reported during the loop; when the analysis has ended,
\* the type errors are those of the accesses pending at the exit node, one
\* for each access.
C10_OneErrorPerExitAccess ==
    /\ pc = "loop" => errors = <<>>
    /\ pc = "done" =>
         /\ Reported = exitInfo.uninitializedVariableAccesses
         /\ Len(errors) = Cardinality(exitInfo.uninitializedVariableAccesses)
         /\ \A i \in DOMAIN errors : errors[i] = TypeError(ErrorAccess(i))

\* The analysis has ended with an access pending at the exit node whose
\* node was visited more than once.
C10_Witness ==
    /\ pc = "done"
    /\ \E a \in exitInfo.uninitializedVariableAccesses : visits[NodeOf(a)] > 1

\* C11 as stated: analyze returns true exactly when no type error was
\* emitted during this analysis.
C11_SuccessIffNoneEmitted ==
    pc = "returned" => (result = TRUE <=> errors = <<>>)

\* C11 as amended: analyze returns true exactly when no type error was
\* emitted during this analysis and the reporter held nothing but warnings
\* when analyze was called.
C11_SuccessIffOnlyWarnings ==
    pc = "returned" =>
        (result = TRUE <=>
            errors = <<>> /\ \A i \in DOMAIN held : held[i] = "Warning")

\* analyze has returned false after an analysis that emitted nothing, on
\* a tree with an implemented function.
C11_Witness ==
    /\ pc = "returned"
    /\ result = FALSE
    /\ errors = <<>>
    /\ occurrences # <<>>

\* What checkUninitializedAccess emits for the function it is run on when
\* it is run from a new map: the sequences of type errors.
EmittedAlone ==
    LET r == RunFrom([n \in Nodes |-> EmptyInfo], <<EntryNode>>, exits, MaxFuel)
    IN IF r.ended
       THEN {[i \in 1..Len(ordered) |-> TypeError(ordered[i])] :
                ordered \in SortedArrangements(
                               r.infos[ExitNode].uninitializedVariableAccesses)}
       ELSE {}

\* C12: the function definitions are visited in the order of the tree; the
\* type errors change only when the analysis of an implemented function
\* ends, and then by what analysing that function alone emits, appended; a
\* function without a body starts no analysis and emits nothing.
C12_Concatenation ==
    [][/\ pending' # pending =>
            /\ pending' = Tail(pending)
            /\ Head(pending).implemented =>
                   /\ pc' = "loop"
                   /\ occurrences' = Head(pending).occurrences
                   /\ exits' = Head(pending).exits
                   /\ storage' = Head(pending).storage
            /\ ~Head(pending).implemented => pc' # "loop" /\ errors' = errors
       /\ errors' # errors => pc = "loop" /\ pc' = "done"
       /\ pc = "loop" /\ pc' = "done" =>
            \E emitted \in EmittedAlone : errors' = errors \o emitted
      ]_vars

\* The analysis of a function is about to emit a type error after type
\* errors of a function before it.
C12_Witness ==
    /\ pc = "loop"
    /\ nodesToTraverse = <<>>
    /\ errors # <<>>
    /\ exitInfo.uninitializedVariableAccesses # {}

\* The two components of a are subsets of those of b.
InfoSubset(a, b) ==
    /\ a.unassignedVariables \subseteq b.unassignedVariables
    /\ a.uninitializedVariableAccesses \subseteq b.uninitializedVariableAccesses

\* C13: monotonicity.  Every step of the loop leaves at every node an
\* unassigned set and a pending-access set that are supersets of those the
\* node had before.
C13_Monotone ==
    [][\A n \in Nodes : InfoSubset(nodeInfos[n], nodeInfos'[n])]_vars

\* C14: a visit of node N changes the NodeInfo of successors of N only;
\* the NodeInfo stored for N is as it was.
C14_VisitLeavesStoredInfo ==
    [][pc = "loop" /\ pc' = "loop" /\ nodesToTraverse # <<>> =>
         LET N == nodesToTraverse[Len(nodesToTraverse)] IN
         \A m \in Nodes \ Successors(N) : nodeInfos'[m] = nodeInfos[m]]_vars

\* What the occurrences of N make of the NodeInfo stored for N.
transfer(N) == ApplyOccurrences(nodeInfos[N], variableOccurrences(N))

\* C15: when the loop has ended, every node reachable from the entry node
\* has been visited, and merging the NodeInfo of a visited node into a
\* successor would not enlarge the successor's.
C15_AllPathsWalked ==
    pc = "done" =>
        /\ \A n \in Nodes : Reaches(EntryNode, n) => visits[n] > 0
        /\ \A N \in Nodes : visits[N] > 0 =>
               \A S \in Successors(N) :
                   ~propagateFrom(nodeInfos[S], nodeInfos[N]).grew

\* C16: when the loop has ended, the NodeInfo of every successor S of a
\* node N reachable from the entry node contains transfer(NodeInfo(N)) in
\* both components.
C16_FixpointContainsTransfer ==
    pc = "done" =>
        \A N \in Nodes : Reaches(EntryNode, N) =>
            \A S \in Successors(N) : InfoSubset(transfer(N), nodeInfos[S])

\* C17: the unassigned set stored for the entry node is empty in every
\* state.
C17_EntryUnassignedEmpty ==
    nodeInfos[EntryNode].unassignedVariables = {}

\* C18: deferred reporting.  A type error is emitted only by a step taken
\* with an empty nodesToTraverse, and only for an access that is then
\* pending at the exit node; while nodesToTraverse holds a node nothing
\* has been emitted.
C18_DeferredReporting ==
    [][/\ errors' # errors =>
            /\ nodesToTraverse = <<>>
            /\ errors = <<>>
            /\ \A i \in DOMAIN errors' :
                   errors'[i].access \in exitInfo.uninitializedVariableAccesses
       /\ nodesToTraverse' # <<>> => errors' = <<>>
      ]_vars

\* The analysis has ended with an access pending at some node that never
\* came to be pending at the exit node, and it was not emitted.
C18_Witness ==
    /\ pc = "done"
    /\ \E n \in Nodes : \E a \in nodeInfos[n].uninitializedVariableAccesses :
         /\ a \notin exitInfo.uninitializedVariableAccesses
         /\ a \notin Reported

\* The kinds of the occurrences with one of the Assignment and
\* InlineAssembly occurrences of node n replaced by the other of the two.
AssignmentLike == {"Assignment", "InlineAssembly"}

Replaceable(n) == {i \in OccIds : NodeOf(i) = n /\ Kind(i) \in AssignmentLike}

KindVariants(n) ==
    {[i \in OccIds |->
         IF i = r
         THEN IF Kind(i) = "Assignment" THEN "InlineAssembly" ELSE "Assignment"
         ELSE Kind(i)] : r \in Replaceable(n)}

\* The for loop over the occurrences, and the iteration of the while loop,
\* with the occurrences taken to be of the kinds kindOf.
RECURSIVE ApplyOccurrencesAs(_, _, _)
ApplyOccurrencesAs(kindOf, info, ids) ==
    IF ids = <<>> THEN info
    ELSE ApplyOccurrencesAs(kindOf, ApplyKind(kindOf[Head(ids)], info, Head(ids)),
                            Tail(ids))

VisitNodeAs(kindOf, infos, stack, exs) ==
    LET currentNode == stack[Len(stack)]
        popped == SubSeq(stack, 1, Len(stack) - 1)
        visited == [infos EXCEPT ![currentNode] =
                       ApplyOccurrencesAs(kindOf, @, variableOccurrences(currentNode))]
    IN PropagateToExits(visited, popped, currentNode, exs[currentNode])

\* C19: every iteration of the loop leaves the NodeInfo of every node and
\* nodesToTraverse as the iteration does in which an InlineAssembly
\* occurrence of the node is taken for an Assignment occurrence, or an
\* Assignment occurrence for an InlineAssembly one.  (The type errors are
\* made from the exit node's accesses, which are Access occurrences.)
C19_AssemblyAsAssignment ==
    [][pc = "loop" /\ pc' = "loop" /\ nodesToTraverse # <<>> =>
         \A k \in KindVariants(nodesToTraverse[Len(nodesToTraverse)]) :
             VisitNodeAs(k, nodeInfos, nodesToTraverse, exits)
                 = [infos |-> nodeInfos', stack |-> nodesToTraverse']]_vars

\* A node was visited in which a storage pointer is declared and then
\* referenced in inline assembly.
C19_Witness ==
    \E i \in OccIds :
        /\ Kind(i) = "InlineAssembly"
        /\ storage[Decl(i)]
        /\ visits[NodeOf(i)] > 0
        /\ \E d \in OccIds :
             /\ d < i /\ NodeOf(d) = NodeOf(i)
             /\ Kind(d) = "Declaration" /\ Decl(d) = Decl(i)

\* C20: no step removes an access from the pending accesses of a node; an
\* occurrence pending at a node is an Access of a storage pointer whose own
\* node is reachable from the entry node and has a path to the node that
\* holds it; a node that is not reachable from the entry node is never
\* visited and none of its accesses is reported.
C20_PendingAccesses ==
    [][LET reachable == {EntryNode} \cup StepsFrom(EntryNode, Nodes) IN
       /\ \A n \in Nodes :
            /\ nodeInfos[n].uninitializedVariableAccesses
                   \subseteq nodeInfos'[n].uninitializedVariableAccesses
            /\ \A a \in nodeInfos'[n].uninitializedVariableAccesses :
                   /\ Kind(a) = "Access"
                   /\ storage[Decl(a)]
                   /\ NodeOf(a) \in reachable
                   /\ Reaches(NodeOf(a), n)
            /\ n \notin reachable => visits'[n] = 0
       /\ \A i \in DOMAIN errors' : NodeOf(errors'[i].access) \in reachable
      ]_vars

\* The analysis has ended with an access of node 2 pending at the exit
\* node, to which it was propagated.
C20_Witness ==
    /\ pc = "done"
    /\ \E a \in exitInfo.uninitializedVariableAccesses :
         NodeOf(a) # ExitNode /\ NodeOf(a) # EntryNode

====
